---- MODULE Spec2Model ----
(***************************************************************************)
(* A model of the Sparkify ETL pipeline: etl.py (file discovery, the two   *)
(* per-file transforms, the bulk loader, the per-file commit loop) and the *)
(* statements of sql_queries.py it executes.                               *)
(*                                                                         *)
(* Strings of the program whose inner structure matters (paths, file       *)
(* names, the quoted user agent) are sequences of tokens; a path is a      *)
(* sequence of names.  The store is a committed state (db) and the view of *)
(* the single connection (tx): commit copies tx to db, rollback and the    *)
(* end of the process copy db to tx.                                       *)
(***************************************************************************)
EXTENDS Integers, Sequences, FiniteSets, TLC

VARIABLES
    pc,         \* position of main / process_data / the per-file function
    phase,      \* "song" (catalog load) or "log" (event load)
    run,        \* how many times main has been started
    db,         \* committed contents of the five tables, and of the statement log
    tx,         \* contents as seen by the connection (db + uncommitted work)
    fs,         \* directory tree: path -> [dirs, files], in listing order
    seen,       \* the phases whose input tree has been observed
    docs,       \* contents of the input files read so far: path -> document
    call,       \* arguments of the last get_files call
    all_files,  \* result of the last get_files call
    i,          \* enumerate index of process_data's loop
    loc,        \* local variables of the per-file function
    out,        \* progress lines printed by process_data in this phase
    faults,     \* failures from outside so far
    err,        \* the exception that ended the process, if any
    hist        \* what each finished phase left in the store

vars == <<pc, phase, run, db, tx, fs, seen, docs, call, all_files, i, loc, out,
          faults, err, hist>>

-----------------------------------------------------------------------------
(* Bounds of the model *)

\* events over all log files of the input
MaxEvents == 2
\* *.json files directly under data/log_data
MaxLogFiles == 2
\* *.json files directly under data/song_data
MaxSongFiles == 1
\* times main is started
MaxRuns == 2
\* failures from outside over all runs: statements the store refuses and
\* terminations of the process
MaxFaults == 1
\* depth of the directory trees get_files is tried on
MaxDepth == 2

-----------------------------------------------------------------------------
(* Values *)

\* Python None / NaN / SQL NULL
None == "None"

\* the 1 that copy_from_stringio returns after a failure (a string, as None is)
Failed == "1"

\* na_rep of to_csv and null of copy_from
NullToken == "NULL"

Range(s) == {s[k] : k \in 1..Len(s)}

SeqsUpTo(S, n) == UNION {[1..k -> S] : k \in 0..n}

RECURSIVE Flatten(_)
Flatten(ss) == IF ss = <<>> THEN <<>> ELSE Head(ss) \o Flatten(Tail(ss))

-----------------------------------------------------------------------------
(* Paths: etl.py get_files *)

\* tokens that begin with a dot
DotTokens == {".json", ".txt", ".csv", ".ipynb_checkpoints", ".h"}

\* str.endswith
EndsWith(s, suf) ==
    /\ Len(suf) <= Len(s)
    /\ SubSeq(s, Len(s) - Len(suf) + 1, Len(s)) = suf

\* the path as one string: the names joined by "/"
RECURSIVE PathStr(_)
PathStr(p) ==
    IF p = <<>> THEN <<>>
    ELSE IF Len(p) = 1 THEN p[1]
    ELSE p[1] \o <<"/">> \o PathStr(Tail(p))

\* os.path.join(root, name)
Join(root, name) == Append(root, name)

\* os.path.abspath of a relative path: the working directory in front
Abspath(p) == << <<"/home">> >> \o p

MaskJson == <<"*", ".json">>
MaskAll == <<"*", ".", "*">>
MaskCsv == <<"*", ".csv">>

\* fnmatch of one name against the mask, as glob applies it: a name that
\* begins with a dot is matched by no mask that begins with "*"
Match(name, mask) ==
    /\ name # <<>>
    /\ name[1] \notin DotTokens
    /\ IF mask = MaskAll
       THEN \E k \in 1..Len(name) : name[k] \in DotTokens
       ELSE EndsWith(name, Tail(mask))

\* glob.glob(os.path.join(root, filemask)): the entries of root, files and
\* directories alike, whose name matches
Glob(tree, root, mask) ==
    LET entries == tree[root].files \o tree[root].dirs
        hit(n) == Match(n, mask)
    IN  [k \in 1..Len(SelectSeq(entries, hit)) |->
            Join(root, SelectSeq(entries, hit)[k])]

\* os.walk that reports a top it cannot list
WalkRaises(tree, top) == IF top \notin DOMAIN tree THEN "IOError" ELSE None

\* the exception os.walk(top) raises: with onerror left at its default the
\* error of listing a directory is ignored, so none
walk_error(tree, top) == None

\* os.walk(top): top-down, nothing (and no error) when top is no directory
RECURSIVE Walk(_, _)
Walk(tree, top) ==
    IF top \notin DOMAIN tree THEN <<>>
    ELSE LET kids == tree[top].dirs
         IN  <<top>> \o Flatten([k \in 1..Len(kids) |-> Walk(tree, Join(top, kids[k]))])

\* lines 22-25 with the exclusion test dropped
FilesOfNoExclude(tree, root, filemask, exclude) ==
    Glob(tree, root, filemask)

\* the files one directory of the walk contributes (lines 22-25)
FilesOf(tree, root, filemask, exclude) ==
    IF exclude # <<>> /\ EndsWith(PathStr(root), exclude)
    THEN <<>>
    ELSE Glob(tree, root, filemask)

\* a walk that does not descend below a directory whose path ends with the
\* suffix
RECURSIVE WalkPruned(_, _, _)
WalkPruned(tree, top, exclude) ==
    IF top \notin DOMAIN tree THEN <<>>
    ELSE IF exclude # <<>> /\ EndsWith(PathStr(top), exclude) THEN <<top>>
    ELSE LET kids == tree[top].dirs
         IN  <<top>> \o Flatten([k \in 1..Len(kids) |->
                                    WalkPruned(tree, Join(top, kids[k]), exclude)])

\* get_files with the excluded directories pruned from the walk
GetFilesPruned(tree, filepath, filemask, exclude) ==
    LET roots == WalkPruned(tree, filepath, exclude)
        found == Flatten([k \in 1..Len(roots) |-> FilesOf(tree, roots[k], filemask, exclude)])
    IN  [k \in 1..Len(found) |-> Abspath(found[k])]

get_files(tree, filepath, filemask, exclude) ==
    LET roots == Walk(tree, filepath)
        found == Flatten([k \in 1..Len(roots) |-> FilesOf(tree, roots[k], filemask, exclude)])
    IN  [k \in 1..Len(found) |-> Abspath(found[k])]


-----------------------------------------------------------------------------
(* The store: sql_queries.py *)

\* statements executed per table; one record per input file of the phase
ZeroWrites == [song |-> 0, artist |-> 0, time |-> 0, user |-> 0, play |-> 0]

EmptyStore ==
    [songs |-> <<>>, artists |-> <<>>, users |-> <<>>, time |-> <<>>,
     songplays |-> <<>>, writes |-> <<>>]

\* outcome of cursor.execute: the exception raised, if any, and the tables
Ok(t) == [err |-> None, t |-> t]
Raise(e, t) == [err |-> e, t |-> t]

HasKey(rows, col, v) == \E k \in 1..Len(rows) : rows[k][col] = v

\* the insert with the sixth placeholder and the conflict clause left out
SongInsertNoConflict(t, p) ==
    Ok([t EXCEPT !.songs = Append(@,
        [song_id |-> p[1], title |-> p[2], artist_id |-> p[3], year |-> p[4],
         duration_str |-> p[5], duration_float |-> None])])

\* song_table_insert: six placeholders, ON CONFLICT (song_id) DO NOTHING.
\* The client fills the placeholders before anything is sent: a parameter
\* tuple of another length raises there.
song_table_insert(t, p) ==
    IF Len(p) # 6 THEN Raise("TypeError", t)
    ELSE IF HasKey(t.songs, "song_id", p[1]) THEN Ok(t)
    ELSE Ok([t EXCEPT !.songs = Append(@,
            [song_id |-> p[1], title |-> p[2], artist_id |-> p[3], year |-> p[4],
             duration_str |-> p[5], duration_float |-> p[6]])])

\* the insert with ON CONFLICT (artist_id) DO UPDATE in place of DO NOTHING
ArtistInsertUpdates(t, p) ==
    IF Len(p) # 5 THEN Raise("TypeError", t)
    ELSE IF HasKey(t.artists, "artist_id", p[1])
    THEN Ok([t EXCEPT !.artists =
            [k \in 1..Len(@) |->
                IF @[k].artist_id = p[1]
                THEN [artist_id |-> p[1], name |-> p[2], location |-> p[3],
                      latitude |-> p[4], longitude |-> p[5]]
                ELSE @[k]]])
    ELSE Ok([t EXCEPT !.artists = Append(@,
            [artist_id |-> p[1], name |-> p[2], location |-> p[3],
             latitude |-> p[4], longitude |-> p[5]])])

\* artist_table_insert: five placeholders, ON CONFLICT (artist_id) DO NOTHING
artist_table_insert(t, p) ==
    IF Len(p) # 5 THEN Raise("TypeError", t)
    ELSE IF HasKey(t.artists, "artist_id", p[1]) THEN Ok(t)
    ELSE Ok([t EXCEPT !.artists = Append(@,
            [artist_id |-> p[1], name |-> p[2], location |-> p[3],
             latitude |-> p[4], longitude |-> p[5]])])

\* time_table_insert: seven placeholders, ON CONFLICT (start_time) DO NOTHING
time_table_insert(t, p) ==
    IF Len(p) # 7 THEN Raise("TypeError", t)
    ELSE IF HasKey(t.time, "start_time", p[1]) THEN Ok(t)
    ELSE Ok([t EXCEPT !.time = Append(@,
            [start_time |-> p[1], hour |-> p[2], day |-> p[3], week |-> p[4],
             month |-> p[5], year |-> p[6], weekday |-> p[7]])])

\* the upsert with every column set from the new row on conflict
UserInsertOverwritesAll(t, p) ==
    IF Len(p) # 5 THEN Raise("TypeError", t)
    ELSE IF HasKey(t.users, "user_id", p[1])
    THEN Ok([t EXCEPT !.users =
            [k \in 1..Len(@) |->
                IF @[k].user_id = p[1]
                THEN [user_id |-> p[1], first_name |-> p[2], last_name |-> p[3],
                      gender |-> p[4], level |-> p[5]]
                ELSE @[k]]])
    ELSE Ok([t EXCEPT !.users = Append(@,
            [user_id |-> p[1], first_name |-> p[2], last_name |-> p[3],
             gender |-> p[4], level |-> p[5]])])

\* user_table_insert: five placeholders,
\* ON CONFLICT (user_id) DO UPDATE SET level = EXCLUDED.level
user_table_insert(t, p) ==
    IF Len(p) # 5 THEN Raise("TypeError", t)
    ELSE IF HasKey(t.users, "user_id", p[1])
    THEN Ok([t EXCEPT !.users =
            [k \in 1..Len(@) |->
                IF @[k].user_id = p[1] THEN [@[k] EXCEPT !.level = p[5]] ELSE @[k]]])
    ELSE Ok([t EXCEPT !.users = Append(@,
            [user_id |-> p[1], first_name |-> p[2], last_name |-> p[3],
             gender |-> p[4], level |-> p[5]])])

\* the lookup with the join condition left out
SongSelectNoJoin(t, p) ==
    {<<t.songs[s].song_id, t.artists[a].artist_id>> :
        <<s, a>> \in {x \in (1..Len(t.songs)) \X (1..Len(t.artists)) :
            /\ t.songs[x[1]].title = p[1]
            /\ t.artists[x[2]].name = p[2]
            /\ t.songs[x[1]].duration_str = p[3]}}

\* song_select: the (song_id, artist_id) of every row of songs JOIN artists
\* that matches title, artist name and duration_str
song_select(t, p) ==
    {<<t.songs[s].song_id, t.songs[s].artist_id>> :
        <<s, a>> \in {x \in (1..Len(t.songs)) \X (1..Len(t.artists)) :
            /\ t.songs[x[1]].artist_id = t.artists[x[2]].artist_id
            /\ t.songs[x[1]].title = p[1]
            /\ t.artists[x[2]].name = p[2]
            /\ t.songs[x[1]].duration_str = p[3]}}

\* cursor.fetchone(): a row of the result, in no promised order, or nothing
\* (the empty tuple stands for None: both are false in "if results")
fetchone(result) == IF result = {} THEN {<<>>} ELSE result

\* a rollback that leaves the connection's work in place
RollbackKeeps(committed, view) == view

\* conn.rollback(), and the end of the process: the uncommitted work is lost
Rollback(committed, view) == committed

\* conn.commit()
Commit(committed, view) == view


-----------------------------------------------------------------------------
(* Inputs *)

SongRoot == << <<"data">>, <<"song_data">> >>
LogRoot == << <<"data">>, <<"log_data">> >>
Checkpoints == <<".ipynb_checkpoints">>

\* catalog documents; durations are in tenths of a second
SongDocs ==
    { [song_id |-> "S1", title |-> "T1", artist_id |-> "A1", year |-> 2000,
       duration |-> 2000, artist_name |-> "N1", artist_location |-> "L1",
       artist_latitude |-> None, artist_longitude |-> None],
      [song_id |-> "S1", title |-> "T2", artist_id |-> "A1", year |-> 2001,
       duration |-> 2005, artist_name |-> "N2", artist_location |-> "L2",
       artist_latitude |-> None, artist_longitude |-> None],
      \* no title
      [song_id |-> "S2", artist_id |-> "A1", year |-> 2000,
       duration |-> 2000, artist_name |-> "N1", artist_location |-> "L1",
       artist_latitude |-> None, artist_longitude |-> None],
      \* no artist_location
      [song_id |-> "S2", title |-> "T1", artist_id |-> "A2", year |-> 2000,
       duration |-> 2000, artist_name |-> "N1",
       artist_latitude |-> None, artist_longitude |-> None] }

Event(ts, page, user, first, level, song, artist, length) ==
    [ts |-> ts, page |-> page, userId |-> user, firstName |-> first,
     lastName |-> "Lee", gender |-> "F", level |-> level, song |-> song,
     artist |-> artist, length |-> length, sessionId |-> 1, location |-> "L",
     userAgent |-> <<"\"", "UA", "\"">>]

\* log events; ts is in milliseconds, length in tenths of a second
EventPool ==
    { Event(1000, "NextSong", 7, "Ann", "free", "T1", "N1", 2000),
      Event(2000, "NextSong", 7, "Anna", "paid", "T1", "N1", 2005),
      Event(2000, "Home", 8, "Bob", "free", None, None, 0),
      Event(1000, "NextSong", 8, "Bob", "paid", "T2", "N1", 2000) }

\* a store in which a catalog has been loaded; S2 is by another artist of
\* the same name as the artist of S1 and S3
LoadedStore ==
    [EmptyStore EXCEPT
        !.songs = << [song_id |-> "S1", title |-> "T1", artist_id |-> "A1", year |-> 2000,
                      duration_str |-> "200.0", duration_float |-> 2000],
                     [song_id |-> "S2", title |-> "T1", artist_id |-> "A2", year |-> 2000,
                      duration_str |-> "200.5", duration_float |-> 2005],
                     [song_id |-> "S3", title |-> "T3", artist_id |-> "A1", year |-> 2001,
                      duration_str |-> "200.0", duration_float |-> 2000] >>,
        !.artists = << [artist_id |-> "A1", name |-> "N1", location |-> "L1",
                        latitude |-> None, longitude |-> None],
                       [artist_id |-> "A2", name |-> "N1", location |-> "L2",
                        latitude |-> None, longitude |-> None] >>]

Stores == {EmptyStore, LoadedStore}

-----------------------------------------------------------------------------
(* Transforms: etl.py process_song_file, process_log_file *)

\* str() of a float with one decimal, given in tenths: 2000 -> "200.0"
Str(x) == ToString(x \div 10) \o "." \o ToString(x % 10)

SongFields == {"song_id", "title", "artist_id", "year", "duration"}
ArtistFields == {"artist_id", "artist_name", "artist_location",
                 "artist_latitude", "artist_longitude"}

\* line 63
song_data(df) == <<df.song_id, df.title, df.artist_id, df.year, df.duration>>

\* line 67
artist_data(df) ==
    <<df.artist_id, df.artist_name, df.artist_location, df.artist_latitude,
      df.artist_longitude>>

\* line 76 followed by the sort of line 92 done in place: the frame itself is
\* put in descending order of ts
SortedInPlace(events) ==
    LET next(e) == e.page = "NextSong"
        kept == SelectSeq(events, next)
        n == Len(kept)
        q == CHOOSE q \in [1..n -> 1..n] :
                /\ \A a, b \in 1..n : a # b => q[a] # q[b]
                /\ \A a, b \in 1..n : a < b =>
                        \/ kept[q[a]].ts > kept[q[b]].ts
                        \/ kept[q[a]].ts = kept[q[b]].ts /\ q[a] < q[b]
    IN  [k \in 1..n |-> kept[q[k]]]

\* line 76 without the filter: every event is kept
KeepAll(events) == events

\* line 76: df[df.page.eq('NextSong')]
Retained(events) ==
    LET next(e) == e.page = "NextSong" IN SelectSeq(events, next)

\* line 79: pd.to_datetime(ts, unit='ms'), for 0 <= ts < 2^31 (January 1970)
to_datetime(ts) ==
    [year |-> 1970, month |-> 1, day |-> 1 + ts \div 86400000,
     hour |-> (ts % 86400000) \div 3600000, ms |-> ts % 3600000]

\* lines 82-84: start_time, hour, day, ISO week, month, year, weekday
\* (1 January 1970 is a Thursday, weekday 3, in ISO week 1)
time_row(ts) ==
    LET t == to_datetime(ts)
    IN  <<t, t.hour, t.day, 1 + (t.day + 2) \div 7, t.month, t.year, (t.day + 2) % 7>>

time_df(df) == [k \in 1..Len(df) |-> time_row(df[k].ts)]

\* line 92, the projection
user_row(e) == <<e.ts, e.userId, e.firstName, e.lastName, e.gender, e.level>>

Perms(n) == {p \in [1..n -> 1..n] : \A a, b \in 1..n : a # b => p[a] # p[b]}

\* line 92: sort_values(by = ["ts"], ascending = False); the default sort is
\* not stable, so rows of equal ts come in any order
sort_values(df) ==
    {[k \in 1..Len(df) |-> user_row(df[p[k]])] :
        p \in {q \in Perms(Len(df)) :
            \A a, b \in 1..Len(df) : a < b => df[q[a]].ts >= df[q[b]].ts}}

\* str.strip('"'): every leading and trailing quote is removed
RECURSIVE strip(_)
strip(s) ==
    IF s = <<>> THEN s
    ELSE IF Head(s) = "\"" THEN strip(Tail(s))
    ELSE IF s[Len(s)] = "\"" THEN strip(SubSeq(s, 1, Len(s) - 1))
    ELSE s

\* lines 108-113: result is the fetched row or nothing
songplay_row(row, result) ==
    [start_time |-> to_datetime(row.ts), user_id |-> row.userId, level |-> row.level,
     song_id |-> IF result = <<>> THEN None ELSE result[1],
     artist_id |-> IF result = <<>> THEN None ELSE result[2],
     session_id |-> row.sessionId, location |-> row.location,
     user_agent |-> strip(row.userAgent)]

\* line 44: a missing value is written as the null token
to_csv(v) == IF v = None THEN NullToken ELSE v

\* line 49: the null token is read as NULL
from_copy(s) == IF s = NullToken THEN None ELSE s

\* lines 44 and 49 on one frame row: what copy_from stores for it
copied_row(r) ==
    [r EXCEPT !.level = from_copy(to_csv(@)), !.song_id = from_copy(to_csv(@)),
              !.artist_id = from_copy(to_csv(@)), !.location = from_copy(to_csv(@))]

\* a copy that leaves out the rows the table already holds
CopyFromOnce(t, frame) ==
    LET new(r) == copied_row(r) \notin Range(t.songplays)
    IN  [t EXCEPT !.songplays =
            @ \o [k \in 1..Len(SelectSeq(frame, new)) |->
                    copied_row(SelectSeq(frame, new)[k])]]

\* line 49: cursor.copy_from appends the rows of the buffer, all or none
copy_from(t, frame) ==
    [t EXCEPT !.songplays = @ \o [k \in 1..Len(frame) |-> copied_row(frame[k])]]

-----------------------------------------------------------------------------
(* The run: etl.py main, process_data, and the per-file functions *)

EmptyFn == [x \in {} |-> 0]

NoLoc == [fn |-> "none"]
NoCall == [filepath |-> <<>>, filemask |-> <<>>, exclude |-> <<>>]
NoHist == [song |-> <<>>, log |-> <<>>, mark |-> 0]

Ended == {"done", "crashed", "killed"}

Root(ph) == IF ph = "song" THEN SongRoot ELSE LogRoot

FileName(k) == <<"f" \o ToString(k), ".json">>

\* what may lie under the root of a phase: n json files and a readme in the
\* root and, once there is a file, the checkpoint directory with a copy of it
InputTrees(ph) ==
    LET root == Root(ph)
        max == IF ph = "song" THEN MaxSongFiles ELSE MaxLogFiles
    IN  { (root :> [dirs |-> IF n > 0 THEN <<Checkpoints>> ELSE <<>>,
                    files |-> [k \in 1..n |-> FileName(k)] \o << <<"readme", ".txt">> >>])
          @@ (IF n > 0
              THEN Join(root, Checkpoints) :>
                     [dirs |-> <<>>, files |-> << <<"f1", "-checkpoint", ".json">> >>]
              ELSE EmptyFn)
          : n \in 0..max }

RECURSIVE SumLen(_, _)
SumLen(f, S) ==
    IF S = {} THEN 0
    ELSE LET x == CHOOSE y \in S : TRUE IN Len(f[x]) + SumLen(f, S \ {x})

\* events in the log files read so far
EventsRead == SumLen(docs.log, DOMAIN docs.log)

\* the store may refuse a statement, while its budget of failures lasts
Rejects == IF faults < MaxFaults THEN {FALSE, TRUE} ELSE {FALSE}

Bump(t, f, col, n) == [t EXCEPT !.writes[f][col] = @ + n]

\* what a phase left behind; of a phase that was terminated, or in which the
\* store refused something, only that much is kept
Snapshot(store, how, f) ==
    IF how = "killed" \/ f # hist.mark
    THEN [how |-> "disturbed"]
    ELSE [how |-> how, songs |-> store.songs, artists |-> store.artists,
          plays |-> Len(store.songplays), users |-> Len(store.users),
          time |-> Len(store.time)]

\* lines 138-141: the loop of process_data is over; main goes on
PhaseEnd(store, f) ==
    /\ hist' = [hist EXCEPT ![phase] = Append(@, Snapshot(store, "done", f)), !.mark = f]
    /\ IF phase = "song"
       THEN pc' = "discover" /\ phase' = "log"
       ELSE pc' = "done" /\ phase' = phase

\* a loop that passes over every other file
AfterFileSkips(store, f) ==
    IF i + 1 < Len(all_files)
    THEN pc' = "open" /\ i' = i + 2 /\ phase' = phase /\ hist' = hist
    ELSE i' = i /\ PhaseEnd(store, f)

\* line 128: the next file, or the end of the loop
AfterFile(store, f) ==
    IF i < Len(all_files)
    THEN pc' = "open" /\ i' = i + 1 /\ phase' = phase /\ hist' = hist
    ELSE i' = i /\ PhaseEnd(store, f)

\* an exception leaves process_data and main, or the process is terminated:
\* the connection is gone and its uncommitted work with it
Stop(how, e, f) ==
    /\ pc' = how
    /\ err' = e
    /\ faults' = f
    /\ tx' = Rollback(db, tx)
    /\ loc' = NoLoc
    /\ hist' = [hist EXCEPT ![phase] = Append(@, Snapshot(db, how, f)), !.mark = f]
    /\ i' = 0
    /\ out' = <<>>
    /\ UNCHANGED <<phase, run, db, fs, seen, call, all_files>>

Init ==
    /\ pc = "discover"
    /\ phase = "song"
    /\ run = 1
    /\ db \in Stores
    /\ tx = db
    /\ fs = EmptyFn
    /\ seen = {}
    /\ docs = [song |-> EmptyFn, log |-> EmptyFn]
    /\ call = NoCall
    /\ all_files = <<>>
    /\ i = 0
    /\ loc = NoLoc
    /\ out = <<>>
    /\ faults = 0
    /\ err = None
    /\ hist = NoHist

\* process_data lines 121-125 (and line 128 when no file is found)
Discover ==
    /\ pc = "discover"
    /\ \E t \in (IF phase \in seen THEN {EmptyFn} ELSE InputTrees(phase)) :
        LET tree == fs @@ t
            files == get_files(tree, Root(phase), MaskJson, Checkpoints)
            store == [db EXCEPT !.writes = [k \in 1..Len(files) |-> ZeroWrites]]
        IN  /\ fs' = tree
            /\ seen' = seen \cup {phase}
            /\ call' = [filepath |-> Root(phase), filemask |-> MaskJson,
                        exclude |-> Checkpoints]
            /\ all_files' = files
            /\ out' = <<>>
            /\ db' = store
            /\ tx' = store
            /\ IF files = <<>>
               THEN i' = 0 /\ PhaseEnd(store, faults)
               ELSE i' = 1 /\ pc' = "open" /\ phase' = phase /\ hist' = hist
    /\ UNCHANGED <<run, docs, loc, faults, err>>

\* process_song_file, lines 58-68
ProcessSongFile ==
    /\ pc = "open" /\ phase = "song"
    /\ LET path == all_files[i] IN
       \E df \in (IF path \in DOMAIN docs.song THEN {docs.song[path]} ELSE SongDocs),
          rej \in Rejects :
        /\ docs' = [docs EXCEPT !.song = (path :> df) @@ @]
        /\ IF ~(SongFields \subseteq DOMAIN df)
           THEN Stop("crashed", "KeyError", faults)
           ELSE LET r1 == song_table_insert(tx, song_data(df)) IN
                IF r1.err # None
                THEN Stop("crashed", r1.err, faults)
                ELSE IF ~(ArtistFields \subseteq DOMAIN df)
                THEN Stop("crashed", "KeyError", faults)
                ELSE LET r2 == artist_table_insert(r1.t, artist_data(df)) IN
                     IF r2.err # None
                     THEN Stop("crashed", r2.err, faults)
                     ELSE IF rej
                     THEN Stop("crashed", "DatabaseError", faults + 1)
                     ELSE /\ tx' = Bump(Bump(r2.t, i, "song", 1), i, "artist", 1)
                          /\ loc' = [fn |-> "song", df |-> df]
                          /\ pc' = "commit"
                          /\ UNCHANGED <<phase, run, db, fs, seen, call, all_files,
                                         i, out, faults, err, hist>>

\* process_log_file, lines 73-92: read, filter, derive the frames
ReadLog ==
    /\ pc = "open" /\ phase = "log"
    /\ LET path == all_files[i] IN
       \E events \in (IF path \in DOMAIN docs.log THEN {docs.log[path]}
                      ELSE SeqsUpTo(EventPool, MaxEvents - EventsRead)) :
        /\ docs' = [docs EXCEPT !.log = (path :> events) @@ @]
        /\ IF events = <<>>
           THEN \* df.page of a frame without columns
                Stop("crashed", "AttributeError", faults)
           ELSE LET df == Retained(events) IN
                \E user_df \in sort_values(df) :
                    /\ loc' = [fn |-> "log", df |-> df, time_df |-> time_df(df),
                               user_df |-> user_df, songplay_df |-> <<>>, k |-> 1,
                               ret |-> None, copies |-> 0]
                    /\ pc' = IF df = <<>> THEN "copy" ELSE "time"
                    /\ UNCHANGED <<phase, run, db, tx, fs, seen, call, all_files,
                                   i, out, faults, err, hist>>

\* the loop position after row k of a frame of n rows
Advance(stage, next, n) ==
    IF loc.k < n
    THEN pc' = stage /\ loc' = [loc EXCEPT !.k = @ + 1]
    ELSE pc' = next /\ loc' = [loc EXCEPT !.k = 1]

\* process_log_file, lines 86-87: one time row
TimeInsert ==
    /\ pc = "time"
    /\ \E rej \in Rejects :
        LET r == time_table_insert(tx, loc.time_df[loc.k]) IN
        IF r.err # None \/ rej
        THEN /\ Stop("crashed", IF r.err # None THEN r.err ELSE "DatabaseError",
                     IF r.err # None THEN faults ELSE faults + 1)
             /\ UNCHANGED docs
        ELSE /\ tx' = Bump(r.t, i, "time", 1)
             /\ Advance("time", "user", Len(loc.time_df))
             /\ UNCHANGED <<phase, run, db, fs, seen, docs, call, all_files, i, out,
                            faults, err, hist>>

\* process_log_file, lines 95-96: one user row, without its timestamp
UserInsert ==
    /\ pc = "user"
    /\ \E rej \in Rejects :
        LET row == loc.user_df[loc.k]
            r == user_table_insert(tx, SubSeq(row, 2, Len(row)))
        IN
        IF r.err # None \/ rej
        THEN /\ Stop("crashed", IF r.err # None THEN r.err ELSE "DatabaseError",
                     IF r.err # None THEN faults ELSE faults + 1)
             /\ UNCHANGED docs
        ELSE /\ tx' = Bump(r.t, i, "user", 1)
             /\ Advance("user", "songplay", Len(loc.user_df))
             /\ UNCHANGED <<phase, run, db, fs, seen, docs, call, all_files, i, out,
                            faults, err, hist>>

\* process_log_file, lines 102-114: the lookup and the fact row of one event
SongPlay ==
    /\ pc = "songplay"
    /\ LET row == loc.df[loc.k] IN
       \E rej \in Rejects,
          results \in fetchone(song_select(tx, <<row.song, row.artist, Str(row.length)>>)) :
        IF rej
        THEN /\ Stop("crashed", "DatabaseError", faults + 1)
             /\ UNCHANGED docs
        ELSE /\ IF loc.k < Len(loc.df)
                THEN pc' = "songplay"
                ELSE pc' = "copy"
             /\ loc' = [loc EXCEPT
                    !.songplay_df = Append(@, songplay_row(row, results)),
                    !.k = IF loc.k < Len(loc.df) THEN @ + 1 ELSE 1]
             /\ UNCHANGED <<phase, run, db, tx, fs, seen, docs, call, all_files, i,
                            out, faults, err, hist>>

\* copy_from_stringio without the commit of line 50
CopyNoCommit(committed, view, frame, f, failed) ==
    IF failed
    THEN [db |-> committed, tx |-> Rollback(committed, view), ret |-> Failed,
          raised |-> FALSE]
    ELSE [db |-> committed,
          tx |-> Bump(copy_from(view, frame), f, "play", Len(frame)),
          ret |-> None, raised |-> FALSE]

\* copy_from_stringio with the handler of lines 51-55 raising again
CopyReraises(committed, view, frame, f, failed) ==
    IF failed
    THEN [db |-> committed, tx |-> Rollback(committed, view), ret |-> Failed,
          raised |-> TRUE]
    ELSE LET t == Bump(copy_from(view, frame), f, "play", Len(frame))
         IN  [db |-> Commit(committed, t), tx |-> t, ret |-> None, raised |-> FALSE]

\* copy_from_stringio whose failure leaves the batch behind in the table
CopyPartial(committed, view, frame, f, failed) ==
    IF failed
    THEN [db |-> committed,
          tx |-> copy_from(Rollback(committed, view), frame),
          ret |-> Failed, raised |-> FALSE]
    ELSE LET t == Bump(copy_from(view, frame), f, "play", Len(frame))
         IN  [db |-> Commit(committed, t), tx |-> t, ret |-> None, raised |-> FALSE]

\* copy_from_stringio whose failure undoes the copy alone: the rows written
\* before it in the transaction stay in the view of the connection
CopyKeepsEarlier(committed, view, frame, f, failed) ==
    IF failed
    THEN [db |-> committed, tx |-> view, ret |-> Failed, raised |-> FALSE]
    ELSE LET t == Bump(copy_from(view, frame), f, "play", Len(frame))
         IN  [db |-> Commit(committed, t), tx |-> t, ret |-> None, raised |-> FALSE]

\* copy_from_stringio, lines 43-56: the store, the value returned, and
\* whether an exception leaves the call (the handler catches every one)
copy_from_stringio(committed, view, frame, f, failed) ==
    IF failed
    THEN [db |-> committed, tx |-> Rollback(committed, view), ret |-> Failed,
          raised |-> FALSE]
    ELSE LET t == Bump(copy_from(view, frame), f, "play", Len(frame))
         IN  [db |-> Commit(committed, t), tx |-> t, ret |-> None, raised |-> FALSE]

\* process_log_file, line 116: the bulk load; its result is dropped
Copy ==
    /\ pc = "copy"
    /\ \E failed \in Rejects :
        LET r == copy_from_stringio(db, tx, loc.songplay_df, i, failed)
            f == IF failed THEN faults + 1 ELSE faults
        IN
        IF r.raised
        THEN /\ Stop("crashed", "DatabaseError", f)
             /\ UNCHANGED docs
        ELSE /\ db' = r.db
             /\ tx' = r.tx
             /\ loc' = [loc EXCEPT !.ret = r.ret, !.copies = @ + 1]
             /\ faults' = f
             /\ pc' = "commit"
             /\ UNCHANGED <<phase, run, fs, seen, docs, call, all_files, i, out,
                            err, hist>>

\* process_data, lines 130-131 (and line 128: on to the next file)
CommitFile ==
    /\ pc = "commit"
    /\ db' = Commit(db, tx)
    /\ tx' = Commit(db, tx)
    /\ out' = Append(out, <<i, Len(all_files)>>)
    /\ loc' = NoLoc
    /\ AfterFile(Commit(db, tx), faults)
    /\ UNCHANGED <<run, fs, seen, docs, call, all_files, faults, err>>

\* the process is terminated from outside, at any point of a run
Kill ==
    /\ pc \notin Ended
    /\ faults < MaxFaults
    /\ Stop("killed", None, faults + 1)
    /\ UNCHANGED docs

\* main is started again against the same store and the same input; the
\* statement log starts anew
Rerun ==
    /\ pc \in Ended
    /\ run < MaxRuns
    /\ run' = run + 1
    /\ pc' = "discover"
    /\ phase' = "song"
    /\ err' = None
    /\ db' = [db EXCEPT !.writes = <<>>]
    /\ tx' = [db EXCEPT !.writes = <<>>]
    /\ UNCHANGED <<fs, seen, docs, call, all_files, i, loc, out, faults, hist>>

-----------------------------------------------------------------------------
(* get_files on its own, over directory trees of bounded depth *)

DirOrder == << <<"A">>, Checkpoints >>

\* every directory holds these files
FilesInDir == << <<"f", ".json">>, <<"g", ".txt">>, <<".h", ".json">> >>

\* the roots get_files is called with; the path of the second ends with the
\* excluded suffix though its name is another
WalkRoots == { << <<"data">> >>, << <<"nb", ".ipynb_checkpoints">> >> }

RelPaths == SeqsUpTo(Range(DirOrder), MaxDepth)

\* the sets of directories, each with its parent; the empty set is a root
\* that does not exist
TreeShapes ==
    {S \in SUBSET RelPaths :
        \A p \in S : p # <<>> => SubSeq(p, 1, Len(p) - 1) \in S}

TreeOf(root, S) ==
    [d \in {root \o r : r \in S} |->
        LET sub(n) == Append(d, n) \in {root \o r : r \in S}
        IN  [dirs |-> SelectSeq(DirOrder, sub), files |-> FilesInDir]]

InitFiles ==
    /\ pc = "locate"
    /\ \E root \in WalkRoots, S \in TreeShapes :
        /\ fs = TreeOf(root, S)
        /\ \E mask \in {MaskJson, MaskAll, MaskCsv}, exclude \in {<<>>, Checkpoints} :
            call = [filepath |-> root, filemask |-> mask, exclude |-> exclude]
    /\ phase = "none"
    /\ run = 1
    /\ db = EmptyStore
    /\ tx = EmptyStore
    /\ seen = {}
    /\ docs = [song |-> EmptyFn, log |-> EmptyFn]
    /\ all_files = <<>>
    /\ i = 0
    /\ loc = NoLoc
    /\ out = <<>>
    /\ faults = 0
    /\ err = None
    /\ hist = NoHist

\* get_files, lines 20-30
Locate ==
    /\ pc = "locate"
    /\ LET e == walk_error(fs, call.filepath) IN
       IF e # None
       THEN pc' = "crashed" /\ err' = e /\ all_files' = all_files
       ELSE /\ pc' = "located"
            /\ err' = err
            /\ all_files' = get_files(fs, call.filepath, call.filemask, call.exclude)
    /\ UNCHANGED <<phase, run, db, tx, fs, seen, docs, call, i, loc, out, faults,
                   hist>>

NextFiles == Locate

SpecFiles == InitFiles /\ [][NextFiles]_vars

-----------------------------------------------------------------------------
(* The statements of sql_queries.py on their own, each given a parameter for *)
(* every placeholder, with the commits and rollbacks of the connection       *)

\* a parameter tuple for each of the six placeholders of song_table_insert
SongParams ==
    {<<df.song_id, df.title, df.artist_id, df.year, Str(df.duration), df.duration>> :
        df \in {d \in SongDocs : SongFields \subseteq DOMAIN d}}

ArtistParams ==
    {artist_data(df) : df \in {d \in SongDocs : ArtistFields \subseteq DOMAIN d}}

TimeParams == {time_row(e.ts) : e \in EventPool}

\* the parameters of the events of one user, which differ in first name and
\* in level
UserParams == {SubSeq(user_row(e), 2, 6) : e \in {x \in EventPool : x.userId = 7}}

InitStmts ==
    /\ pc = "stmt"
    /\ db \in {[st EXCEPT !.writes = <<ZeroWrites>>] : st \in Stores}
    /\ tx = db
    /\ phase = "none"
    /\ run = 1
    /\ fs = EmptyFn
    /\ seen = {}
    /\ docs = [song |-> EmptyFn, log |-> EmptyFn]
    /\ call = NoCall
    /\ all_files = <<>>
    /\ i = 1
    /\ loc = NoLoc
    /\ out = <<>>
    /\ faults = 0
    /\ err = None
    /\ hist = NoHist

\* cur.execute(statement, p): the statement acts on the view of the connection
Executed(fn, p, r) ==
    /\ pc = "stmt"
    /\ r.err = None
    /\ tx' = r.t
    /\ loc' = [fn |-> fn, p |-> p]
    /\ UNCHANGED <<pc, phase, run, db, fs, seen, docs, call, all_files, i, out,
                   faults, err, hist>>

ExecSong == \E p \in SongParams : Executed("song", p, song_table_insert(tx, p))

ExecArtist == \E p \in ArtistParams : Executed("artist", p, artist_table_insert(tx, p))

ExecTime == \E p \in TimeParams : Executed("time", p, time_table_insert(tx, p))

ExecUser == \E p \in UserParams : Executed("user", p, user_table_insert(tx, p))

\* copy_from_stringio of a frame without rows: its commit or its rollback
ExecCopy ==
    /\ pc = "stmt"
    /\ \E failed \in BOOLEAN :
        LET r == copy_from_stringio(db, tx, <<>>, i, failed)
        IN  /\ db' = r.db
            /\ tx' = r.tx
            /\ loc' = [fn |-> "copy", p |-> <<r.ret>>]
    /\ UNCHANGED <<pc, phase, run, fs, seen, docs, call, all_files, i, out,
                   faults, err, hist>>

\* conn.commit() of process_data, line 130
ConnCommit ==
    /\ pc = "stmt"
    /\ db' = Commit(db, tx)
    /\ tx' = Commit(db, tx)
    /\ loc' = [fn |-> "commit", p |-> <<>>]
    /\ UNCHANGED <<pc, phase, run, fs, seen, docs, call, all_files, i, out,
                   faults, err, hist>>

\* the connection is lost with work uncommitted
ConnLost ==
    /\ pc = "stmt"
    /\ tx' = Rollback(db, tx)
    /\ loc' = [fn |-> "lost", p |-> <<>>]
    /\ UNCHANGED <<pc, phase, run, db, fs, seen, docs, call, all_files, i, out,
                   faults, err, hist>>

NextStmts ==
    \/ ExecSong
    \/ ExecArtist
    \/ ExecTime
    \/ ExecUser
    \/ ExecCopy
    \/ ConnCommit
    \/ ConnLost

SpecStmts == InitStmts /\ [][NextStmts]_vars

-----------------------------------------------------------------------------
(* The run as a whole *)

Next ==
    \/ Discover
    \/ ProcessSongFile
    \/ ReadLog
    \/ TimeInsert
    \/ UserInsert
    \/ SongPlay
    \/ Copy
    \/ CommitFile
    \/ Kill
    \/ Rerun

Spec == Init /\ [][Next]_vars

\* a step of the program itself
Step ==
    \/ Discover
    \/ ProcessSongFile
    \/ ReadLog
    \/ TimeInsert
    \/ UserInsert
    \/ SongPlay
    \/ Copy
    \/ CommitFile

\* one run of main, left to itself: the interpreter runs the next statement
\* as long as there is one
SpecLive == Init /\ [][Step]_vars /\ WF_vars(Step)

-----------------------------------------------------------------------------
(* Properties *)

InLog == loc.fn = "log"

\* the events of user u among the retained events of the file in hand
EventsOf(u) == {k \in 1..Len(loc.df) : loc.df[k].userId = u}

\* the stored rows of user u
StoredUser(u) == {r \in Range(tx.users) : r.user_id = u}

\* C1: when the user upserts of a log file are done, the stored level of
\* every user of the file whose events carry different timestamps and more
\* than one level is the level of the event with the latest timestamp
C1_LatestLevelStored ==
    (InLog /\ pc \in {"songplay", "copy"}) =>
        \A u \in {loc.df[k].userId : k \in 1..Len(loc.df)} :
            LET ks == EventsOf(u)
                apart == \A a, b \in ks : a # b => loc.df[a].ts # loc.df[b].ts
                levels == {loc.df[k].level : k \in ks}
                last == CHOOSE k \in ks : \A j \in ks : loc.df[j].ts <= loc.df[k].ts
            IN  (apart /\ Cardinality(levels) >= 2) =>
                    \A r \in StoredUser(u) : r.level = loc.df[last].level

\* the exceptions a file can raise on its own or by the store refusing a
\* statement of it
FileErrors == {"KeyError", "AttributeError", "DatabaseError"}

\* C2 as claimed: no failure of a file halts the run
C2_FailureNeverHalts == ~(pc = "crashed" /\ err \in FileErrors)

\* the file at position f of the loop had events to load and none of its
\* statements is committed
LostFile(f) ==
    /\ f \in 1..Len(db.writes)
    /\ all_files[f] \in DOMAIN docs.log
    /\ Retained(docs.log[all_files[f]]) # <<>>
    /\ db.writes[f] = ZeroWrites

\* C2 as amended: a failed bulk copy is not an exception of the file, which
\* is reported and followed by the next file, so that a phase that ends has
\* reported every file; any other failure ends the run inside the file in
\* hand, with the files before it reported and no file after it processed
C2_OnlyCopyFailureContained ==
    /\ [](pc = "done" => Len(out) = Len(all_files))
    /\ [][(pc = "copy" /\ faults' # faults /\ pc' # "killed") =>
            (pc' = "commit" /\ i' = i /\ err' = None)]_vars
    /\ [][(pc = "commit" /\ pc' \notin {"killed"}) =>
            /\ out' = Append(out, <<i, Len(all_files)>>)
            /\ IF i < Len(all_files) THEN pc' = "open" /\ i' = i + 1
               ELSE pc' \in {"discover", "done"}]_vars
    /\ [][pc' = "crashed" =>
            /\ pc \in {"open", "time", "user", "songplay"}
            /\ Len(out) = i - 1
            /\ err' \in FileErrors \cup {"TypeError"}]_vars

\* C2 witness: the event phase has ended with its first file lost to a failed
\* bulk copy and a later file loaded
C2_Witness ==
    /\ pc = "done"
    /\ LostFile(1)
    /\ Len(all_files) >= 2
    /\ db.writes[2].play > 0

\* C3: a failed bulk copy rolls back, leaves the target table as it was
\* committed, is tried once, and returns 1 where a success returns None
C3_FailedCopyRollsBack ==
    [][(pc = "copy" /\ pc' # "killed") =>
        IF faults' # faults
        THEN /\ tx' = db
             /\ db' = db
             /\ tx'.songplays = tx.songplays
             /\ loc'.ret = Failed
             /\ loc'.copies = 1
        ELSE loc'.ret = None /\ loc'.ret # Failed /\ loc'.copies = 1]_vars

\* C3 witness: a bulk copy of a batch with rows has failed
C3_Witness ==
    /\ pc = "commit" /\ InLog
    /\ loc.ret = Failed
    /\ loc.songplay_df # <<>>

SuccessfulCopy == pc = "copy" /\ pc' = "commit" /\ faults' = faults

\* C4 as claimed: a successful bulk copy leaves the committed store as it was
C4_CopyDoesNotCommit == [][SuccessfulCopy => db' = db]_vars

\* C4 as amended: a successful bulk copy commits; on return the batch and the
\* rows written before it in the transaction are committed, and the commit of
\* process_data finds nothing uncommitted
C4_CopyCommits ==
    /\ [][SuccessfulCopy =>
            /\ db' = tx'
            /\ db'.songplays =
                 tx.songplays \o [k \in 1..Len(loc.songplay_df) |->
                                    copied_row(loc.songplay_df[k])]
            /\ db'.users = tx.users
            /\ db'.time = tx.time]_vars
    /\ []((pc = "commit" /\ InLog) => tx = db)

\* C4 witness: a bulk copy of a batch with rows has succeeded after time and
\* user rows were written in the same transaction
C4_Witness ==
    /\ pc = "commit" /\ InLog
    /\ loc.ret = None
    /\ loc.songplay_df # <<>>
    /\ db.writes[i].time > 0
    /\ db.writes[i].user > 0
    /\ db.writes[i].play = Len(loc.songplay_df)

\* the statements the file at position f of the loop executes when it is
\* processed to the end
FullWrites(f) ==
    IF phase = "song"
    THEN [ZeroWrites EXCEPT !.song = 1, !.artist = 1]
    ELSE LET n == Len(Retained(docs.log[all_files[f]]))
         IN  [ZeroWrites EXCEPT !.time = n, !.user = n, !.play = n]

\* C5: of every file of the phase, the committed store holds the effect of
\* all of its statements or of none
C5_FileAllOrNothing ==
    \A f \in 1..Len(db.writes) :
        \/ db.writes[f] = ZeroWrites
        \/ /\ all_files[f] \in DOMAIN docs[phase]
           /\ db.writes[f] = FullWrites(f)

\* C5 witness: the process was terminated in its first run with the first log
\* file committed whole and nothing of the second, which had been read
C5_Witness ==
    /\ pc = "killed" /\ phase = "log" /\ run = 1
    /\ Len(db.writes) >= 2
    /\ db.writes[1].play > 0
    /\ LostFile(2)

\* the document has every field process_song_file reads
Complete(df) == (SongFields \cup ArtistFields) \subseteq DOMAIN df

\* C6: process_song_file on a complete document, the store refusing nothing,
\* executes one song insert and one artist insert; the song row stored under
\* the document's song_id is the only one, and when it is new it carries the
\* document's title, artist_id, year and the duration as string and as number
C6_OneSongOneArtistRow ==
    [][(pc = "open" /\ phase = "song" /\ faults' = faults) =>
        LET df == docs'.song[all_files[i]] IN
        Complete(df) =>
            /\ pc' = "commit"
            /\ tx'.writes[i].song = 1
            /\ tx'.writes[i].artist = 1
            /\ Cardinality({k \in 1..Len(tx'.songs) :
                              tx'.songs[k].song_id = df.song_id}) = 1
            /\ Cardinality({k \in 1..Len(tx'.artists) :
                              tx'.artists[k].artist_id = df.artist_id}) = 1
            /\ ~HasKey(tx.songs, "song_id", df.song_id) =>
                 [song_id |-> df.song_id, title |-> df.title,
                  artist_id |-> df.artist_id, year |-> df.year,
                  duration_str |-> Str(df.duration),
                  duration_float |-> df.duration] \in Range(tx'.songs)
            /\ ~HasKey(tx.artists, "artist_id", df.artist_id) =>
                 [artist_id |-> df.artist_id, name |-> df.artist_name,
                  location |-> df.artist_location,
                  latitude |-> df.artist_latitude,
                  longitude |-> df.artist_longitude] \in Range(tx'.artists)]_vars

\* the stored (song, artist) pairs an event matches: the song is by the
\* artist, and title, artist name and duration string are the event's
MatchesOf(ev) ==
    {m \in Range(tx.songs) \X Range(tx.artists) :
        /\ m[1].artist_id = m[2].artist_id
        /\ m[1].title = ev.song
        /\ m[2].name = ev.artist
        /\ m[1].duration_str = Str(ev.length)}

\* C7: the fact row of every retained event carries the ids of a stored pair
\* that matches the event, both of them, and no id at all when none matches
C7_LookupBothOrNeither ==
    InLog =>
        \A k \in 1..Len(loc.songplay_df) :
            LET r == loc.songplay_df[k]
                M == MatchesOf(loc.df[k])
            IN  /\ (r.song_id = None) <=> (r.artist_id = None)
                /\ IF M = {}
                   THEN r.song_id = None /\ r.artist_id = None
                   ELSE \E m \in M : /\ r.song_id = m[1].song_id
                                     /\ r.artist_id = m[2].artist_id
                                     /\ r.song_id # None
                                     /\ r.artist_id # None

\* C7 witness: the frame of one file holds a fact row with ids and one without
C7_Witness ==
    /\ InLog
    /\ \E j, k \in 1..Len(loc.songplay_df) :
        /\ MatchesOf(loc.df[j]) # {}
        /\ loc.songplay_df[j].song_id # None
        /\ MatchesOf(loc.df[k]) = {}
        /\ loc.songplay_df[k].song_id = None

\* the directory a returned path lies in, and the directories above it
Parent(path) == SubSeq(path, 1, Len(path) - 1)
Excluded(dir) == call.exclude # <<>> /\ EndsWith(PathStr(dir), call.exclude)

\* C8 as claimed: no returned path lies below a directory whose path ends
\* with the suffix, at any depth
C8_NothingBelowExcluded ==
    pc = "located" =>
        \A k \in 1..Len(all_files) :
            \A j \in 1..(Len(all_files[k]) - 1) :
                ~Excluded(SubSeq(all_files[k], 1, j))

\* C8 as amended: no returned path lies directly in a directory whose path
\* ends with the suffix
C8_NothingDirectlyInExcluded ==
    pc = "located" =>
        \A k \in 1..Len(all_files) : ~Excluded(Parent(all_files[k]))

\* C8 witness: the walk met a directory whose path ends with the suffix, and
\* files were returned
C8_Witness ==
    /\ pc = "located"
    /\ \E d \in DOMAIN fs : Excluded(d) /\ Glob(fs, d, call.filemask) # <<>>
    /\ all_files # <<>>

\* C9: when the event phase has run to its end twice, undisturbed, the fact
\* table has twice the rows it had after the first, and the users and time
\* tables as many rows as after the first
C9_FactDoublesDimsStay ==
    (/\ Len(hist.log) >= 2
     /\ hist.log[1].how = "done"
     /\ hist.log[2].how = "done") =>
        /\ hist.log[2].plays = 2 * hist.log[1].plays
        /\ hist.log[2].users = hist.log[1].users
        /\ hist.log[2].time = hist.log[1].time

\* C9 witness: two such phases, the first of which loaded fact, user and time
\* rows
C9_Witness ==
    /\ Len(hist.log) >= 2
    /\ hist.log[1].how = "done"
    /\ hist.log[2].how = "done"
    /\ hist.log[1].plays > 1
    /\ hist.log[1].users > 0
    /\ hist.log[1].time > 0

NextSongAt(events) == {k \in 1..Len(events) : events[k].page = "NextSong"}

\* the NextSong events of the log files read so far
NextSongRead ==
    UNION {{docs.log[p][k] : k \in NextSongAt(docs.log[p])} : p \in DOMAIN docs.log}

\* C11: the frames of a log file have one row per event of the file whose
\* page is "NextSong", one statement is executed per such event and table,
\* and every time, user and fact row in the store comes from such an event:
\* an event with another page leaves no row anywhere
C11_OnlyNextSongRows ==
    /\ (InLog /\ pc \in {"copy", "commit"}) =>
            LET n == Cardinality(NextSongAt(docs.log[all_files[i]]))
            IN  /\ Len(loc.songplay_df) = n
                /\ Len(loc.time_df) = n
                /\ Len(loc.user_df) = n
                /\ pc = "copy" => (tx.writes[i].time = n /\ tx.writes[i].user = n)
                /\ tx.writes[i].play \in {0, n}
    /\ \A r \in Range(tx.time) :
            \E e \in NextSongRead : r.start_time = to_datetime(e.ts)
    /\ \A r \in Range(tx.users) :
            /\ \E e \in NextSongRead :
                    /\ r.user_id = e.userId
                    /\ r.first_name = e.firstName
            /\ \E e \in NextSongRead :
                    /\ r.user_id = e.userId
                    /\ r.level = e.level
    /\ \A r \in Range(tx.songplays) :
            \E e \in NextSongRead :
                /\ r.start_time = to_datetime(e.ts)
                /\ r.user_id = e.userId
                /\ r.level = e.level

\* C11 witness: a file with a NextSong event and an event of another page
\* has been transformed, and its one fact row loaded
C11_Witness ==
    /\ pc = "commit" /\ InLog
    /\ LET events == docs.log[all_files[i]]
       IN  /\ NextSongAt(events) # {}
           /\ NextSongAt(events) # 1..Len(events)
    /\ Len(loc.songplay_df) = 1
    /\ tx.writes[i].play = 1

\* get_files has returned or raised
Located == pc \in {"located", "crashed"}

\* the root of the call is no directory of the tree
MissingRoot == call.filepath \notin DOMAIN fs

\* C12 as claimed: get_files with a root that does not exist fails with an
\* IOError; with a root that exists and no file matching it returns the
\* empty sequence
C12_MissingRootRaises ==
    Located =>
        IF MissingRoot
        THEN pc = "crashed" /\ err = "IOError"
        ELSE (\A d \in DOMAIN fs : Glob(fs, d, call.filemask) = <<>>) =>
                (pc = "located" /\ err = None /\ all_files = <<>>)

\* C12 as amended: in both cases get_files returns the empty sequence and
\* raises nothing
C12_MissingRootEmpty ==
    (/\ Located
     /\ MissingRoot \/ \A d \in DOMAIN fs : Glob(fs, d, call.filemask) = <<>>) =>
        (pc = "located" /\ err = None /\ all_files = <<>>)

\* C12 witness: get_files has returned from a call with a root that does not
\* exist
C12_Witness ==
    /\ pc = "located"
    /\ MissingRoot
    /\ call.filemask = MaskJson
    /\ all_files = <<>>

\* the position in the file of its j-th event whose page is "NextSong"
NthNextSong(events, j) ==
    CHOOSE k \in NextSongAt(events) :
        Cardinality({m \in NextSongAt(events) : m < k}) = j - 1

\* C13: the j-th fact row of the frame handed to the bulk loader is the row
\* of the j-th retained event of the file, whatever order the user frame has
C13_FactRowsInFileOrder ==
    InLog =>
        LET events == docs.log[all_files[i]] IN
        \A j \in 1..Len(loc.songplay_df) :
            LET e == events[NthNextSong(events, j)]
                r == loc.songplay_df[j]
            IN  /\ r.start_time = to_datetime(e.ts)
                /\ r.user_id = e.userId
                /\ r.level = e.level
                /\ r.session_id = e.sessionId

\* C13 witness: the frame of a file whose events come in ascending order of
\* ts is about to be loaded; the user frame has them the other way round
C13_Witness ==
    /\ pc = "copy" /\ InLog
    /\ Len(loc.songplay_df) = 2
    /\ loc.df[1].ts < loc.df[2].ts
    /\ loc.user_df[1][1] > loc.user_df[2][1]
    /\ loc.songplay_df[1].start_time = to_datetime(loc.df[1].ts)

\* the entries of directory d whose name the mask of the call matches
Matching(d) ==
    {n \in Range(fs[d].files) \cup Range(fs[d].dirs) : Match(n, call.filemask)}

\* a directory above d, d not included, has a path that ends with the suffix
BelowExcluded(d) ==
    \E j \in Len(call.filepath)..(Len(d) - 1) : Excluded(SubSeq(d, 1, j))

\* C14: of a directory whose path ends with the suffix no entry is returned;
\* of every other directory of the tree, those below such a directory
\* included, every matching entry is returned
C14_ExcludedStillDescended ==
    pc = "located" =>
        \A d \in DOMAIN fs :
            IF Excluded(d)
            THEN \A n \in Range(fs[d].files) \cup Range(fs[d].dirs) :
                    Abspath(Join(d, n)) \notin Range(all_files)
            ELSE \A n \in Matching(d) : Abspath(Join(d, n)) \in Range(all_files)

\* C14 witness: a file was returned from a directory that lies below a
\* directory whose path ends with the suffix, and none from that directory
C14_Witness ==
    /\ pc = "located"
    /\ \E d \in DOMAIN fs :
        /\ ~Excluded(d)
        /\ BelowExcluded(d)
        /\ \E n \in Matching(d) : Abspath(Join(d, n)) \in Range(all_files)

\* the per-file function is at work on file i
InFile == pc \in {"open", "time", "user", "songplay", "copy", "commit"}

\* nothing has failed in the log file at position f: all it had to write is
\* committed
Loaded(f) ==
    /\ all_files[f] \in DOMAIN docs.log
    /\ db.writes[f] = FullWrites(f)

\* C15: the event phase begins only when the catalog phase of the run has
\* ended, by the commit of its last file or at a discovery of none; a commit
\* follows every file and is followed by the report of i out of the total and
\* by the next file; while file i is in hand the files before it have been
\* reported in order, once each; a run that ends otherwise than done has
\* raised an exception; a phase that ends with no failure in it has loaded
\* every file once; and the run ends
C15_PhasesInOrder ==
    /\ [][(phase = "song" /\ phase' = "log") =>
            \/ pc = "commit" /\ i = Len(all_files) /\ pc' = "discover"
            \/ pc = "discover" /\ all_files' = <<>> /\ pc' = "discover"]_vars
    /\ [](phase = "log" =>
            /\ Len(hist.song) = run
            /\ hist.song[run].how = "done")
    /\ [](InFile =>
            /\ i \in 1..Len(all_files)
            /\ Len(out) = i - 1
            /\ \A k \in 1..Len(out) : out[k] = <<k, Len(all_files)>>)
    /\ [][(pc = "commit" /\ pc' # "killed") =>
            /\ db' = tx /\ tx' = tx
            /\ out' = Append(out, <<i, Len(all_files)>>)
            /\ IF i < Len(all_files)
               THEN pc' = "open" /\ i' = i + 1 /\ phase' = phase
               ELSE pc' = (IF phase = "song" THEN "discover" ELSE "done")]_vars
    /\ [](pc = "done" =>
            /\ phase = "log"
            /\ Len(out) = Len(all_files)
            /\ \A k \in 1..Len(out) : out[k] = <<k, Len(all_files)>>
            /\ hist.log[Len(hist.log)].how = "done" =>
                  \A f \in 1..Len(all_files) : Loaded(f))
    /\ [](pc = "crashed" => err # None)
    /\ (pc = "discover") ~> (pc \in {"done", "crashed"})

\* C15 witness: a run has ended done with nothing having failed, two log
\* files loaded and reported
C15_Witness ==
    /\ pc = "done"
    /\ faults = 0
    /\ out = << <<1, 2>>, <<2, 2>> >>
    /\ Loaded(1) /\ Loaded(2)
    /\ db.writes[1].play > 0
    /\ db.writes[2].play > 0

\* the dimension tables that are insert-once, each with its key and the
\* statement that inserts into it
Dimensions ==
    {<<"songs", "song_id", "song">>, <<"artists", "artist_id", "artist">>,
     <<"time", "start_time", "time">>}

\* every row of table T of store a is, at its place and with every attribute,
\* a row of store b
KeptIn(a, b, T) ==
    /\ Len(b[T]) >= Len(a[T])
    /\ \A k \in 1..Len(a[T]) : b[T][k] = a[T][k]

FailedCopy == pc = "copy" /\ faults' # faults /\ pc' # "killed"

\* C17: a failed bulk copy leaves in the view of the connection no time or
\* user row and no statement of the file in hand, only what was committed
\* before the file; process_log_file returns as after a success, nothing
\* raised; process_data then commits, which changes nothing, reports the
\* file as processed and goes on to the next file or to the end of the phase
C17_FailedCopyLosesWholeFile ==
    /\ [][FailedCopy =>
            /\ tx'.time = db.time
            /\ tx'.users = db.users
            /\ tx'.songplays = db.songplays
            /\ tx'.writes[i] = ZeroWrites
            /\ db' = db
            /\ pc' = "commit" /\ err' = None /\ i' = i /\ out' = out]_vars
    /\ [][(pc = "commit" /\ InLog /\ loc.ret = Failed /\ pc' # "killed") =>
            /\ db' = db
            /\ db'.writes[i] = ZeroWrites
            /\ out' = Append(out, <<i, Len(all_files)>>)
            /\ err' = None
            /\ IF i < Len(all_files)
               THEN pc' = "open" /\ i' = i + 1
               ELSE pc' = "done"]_vars

\* C17 witness: the second log file is about to be opened; the first, whose
\* time and user rows had been written, was reported and nothing of it is
\* committed
C17_Witness ==
    /\ pc = "open" /\ phase = "log"
    /\ i = 2
    /\ out = << <<1, 2>> >>
    /\ LostFile(1)
    /\ db.time = <<>> /\ db.users = <<>>

\* C18: a user upsert of the pipeline that goes through leaves every other
\* user row as it is; under a stored user_id it changes the level of the
\* stored row to the level of the event and nothing else; under a new
\* user_id it appends the row of the event
C18_UpsertOverwritesOnlyLevel ==
    [][(pc = "user" /\ pc' \in {"user", "songplay"}) =>
        LET row == loc.user_df[loc.k]
            at == {k \in 1..Len(tx.users) : tx.users[k].user_id = row[2]}
        IN  /\ \A k \in (1..Len(tx.users)) \ at : tx'.users[k] = tx.users[k]
            /\ \A k \in at :
                /\ tx'.users[k].user_id = tx.users[k].user_id
                /\ tx'.users[k].first_name = tx.users[k].first_name
                /\ tx'.users[k].last_name = tx.users[k].last_name
                /\ tx'.users[k].gender = tx.users[k].gender
                /\ tx'.users[k].level = row[6]
            /\ IF at # {}
               THEN Len(tx'.users) = Len(tx.users)
               ELSE /\ Len(tx'.users) = Len(tx.users) + 1
                    /\ tx'.users[Len(tx'.users)] =
                         [user_id |-> row[2], first_name |-> row[3],
                          last_name |-> row[4], gender |-> row[5],
                          level |-> row[6]]]_vars

\* C18 witness: the two events of a file, of one user, with two first names
\* and two levels, have been upserted: the stored row has the first name of
\* the first upsert and the level of the second
C18_Witness ==
    /\ pc = "songplay" /\ InLog
    /\ Len(loc.user_df) = 2
    /\ loc.user_df[1][2] = loc.user_df[2][2]
    /\ loc.user_df[1][3] # loc.user_df[2][3]
    /\ loc.user_df[1][6] # loc.user_df[2][6]
    /\ \E r \in Range(tx.users) :
        /\ r.user_id = loc.user_df[1][2]
        /\ r.first_name = loc.user_df[1][3]
        /\ r.level = loc.user_df[2][6]

=============================================================================
